---- MODULE Spec2Model ----
(***************************************************************************)
(* NSFleet: vehicle booking core.  The booking store, the audit trail and  *)
(* the booking route handlers of server/routes.ts over the data access     *)
(* layer of server/storage.ts, with the column rules of the schema.        *)
(***************************************************************************)
EXTENDS Integers, Sequences, FiniteSets, TLC

VARIABLES
    bookings,     \* the bookings table, in insertion order; row i has id i
    auditTrail,   \* the audit_trail table, in insertion order
    now,          \* the clock read by new Date()
    resp,         \* the HTTP response sent by the step just taken
    procs,        \* the requests in flight, one per connection
    call,         \* the last direct call of a storage function, with its result
    fleet         \* the is_active flag of each row of the drivers and vehicles tables

vars == <<bookings, auditTrail, now, resp, procs, call, fleet>>

\* ---------------------------------------------------------------- bounds
MaxBookings == 2
MaxAudit == 4
MaxTime == 3       \* the clock runs from 0 to MaxTime
MaxIssued == 2     \* creations applied to a table that already holds codes
MaxFailures == 1   \* awaits of createAuditEntry that reject
MaxDay == 7        \* the instants given to calculateWorkingDays lie in days 0 .. MaxDay

\* ---------------------------------------------------------------- values
Null == "null"            \* SQL NULL, JS null
Undef == "undefined"      \* a key the request body does not carry
NoDate == 0 - 1           \* a NULL timestamp column
NoId == 0                 \* an id argument that is not given

Users == {"u1", "u2", "a1", "s1"}
UserRole == [u \in Users |-> CASE u = "a1" -> "admin"
                                [] u = "s1" -> "superadmin"
                                [] OTHER -> "user"]
Drivers == {"d1", "d2"}
Vehicles == {"v1", "v2"}
BookingStatus == {"pending", "approved", "rejected", "dibatalkan"}

\* every driver and vehicle row as inserted: is_active defaults to true
AllActive == [drivers |-> [d \in Drivers |-> TRUE], vehicles |-> [v \in Vehicles |-> TRUE]]

NoResp == [status |-> 0, message |-> "", conflicts |-> {}]
Idle == [pc |-> "idle"]
NoCall == [fn |-> "none"]
Procs == {1, 2}

\* ------------------------------------------------------- small utilities
Range(s) == {s[i] : i \in DOMAIN s}
Ids(bk) == DOMAIN bk
Truthy(v) == v # Undef /\ v # Null /\ v # ""

\* ------------------------------------------------- booking id generation
\* A booking id is a string of decimal digits, kept as a sequence of digits.
RECURSIVE ToDigits(_)
ToDigits(n) == IF n < 10 THEN <<n>> ELSE Append(ToDigits(n \div 10), n % 10)

RECURSIVE ParseInt(_)
ParseInt(s) == IF s = <<>> THEN 0
               ELSE 10 * ParseInt(SubSeq(s, 1, Len(s) - 1)) + s[Len(s)]

RECURSIVE PadStart(_, _)
PadStart(s, n) == IF Len(s) >= n THEN s ELSE PadStart(<<0>> \o s, n)

\* string order, character by character, a proper prefix first
RECURSIVE StrLess(_, _)
StrLess(a, b) ==
    IF b = <<>> THEN FALSE
    ELSE IF a = <<>> THEN TRUE
    ELSE IF a[1] # b[1] THEN a[1] < b[1]
    ELSE StrLess(Tail(a), Tail(b))

StartsWith(s, p) == Len(s) >= Len(p) /\ SubSeq(s, 1, Len(p)) = p

YearOf(t) == 2025 + (t \div 2)
CurrentYear(t) == LET d == ToDigits(YearOf(t)) IN SubSeq(d, Len(d) - 1, Len(d))

\* SELECT booking_id ... WHERE booking_id LIKE 'YY%' ORDER BY booking_id DESC
\* LIMIT 1 over the rows lo .. hi: the greatest matching id in string
\* order, <<>> when no row matches.
RECURSIVE LatestBookingId(_, _, _, _)
LatestBookingId(bk, currentYear, lo, hi) ==
    IF lo > hi THEN <<>>
    ELSE IF lo = hi
    THEN IF StartsWith(bk[lo].bookingId, currentYear) THEN bk[lo].bookingId ELSE <<>>
    ELSE LET mid == (lo + hi) \div 2
             a == LatestBookingId(bk, currentYear, lo, mid)
             b == LatestBookingId(bk, currentYear, mid + 1, hi)
         IN  IF StrLess(a, b) THEN b ELSE a

\* the latest id of any year, not of the current year only
generateBookingIdAnyYear(bk, t) ==
    LET currentYear == CurrentYear(t)
        latestId == LatestBookingId(bk, <<>>, 1, Len(bk))
        sequence == IF latestId = <<>> THEN 1
                    ELSE ParseInt(SubSeq(latestId, 3, Len(latestId))) + 1
    IN  currentYear \o PadStart(ToDigits(sequence), 3)

generateBookingId(bk, t) ==
    LET currentYear == CurrentYear(t)
        latestId == LatestBookingId(bk, currentYear, 1, Len(bk))
        sequence == IF latestId = <<>> THEN 1
                    ELSE ParseInt(SubSeq(latestId, 3, Len(latestId))) + 1
    IN  currentYear \o PadStart(ToDigits(sequence), 3)

\* ------------------------------------------------------------ the tables
\* Column rules of the bookings table: the status enum and the references
\* to drivers, vehicles and users.
RowOk(b) ==
    /\ b.status \in BookingStatus
    /\ b.driverId \in Drivers \cup {Null}
    /\ b.vehicleId \in Vehicles \cup {Null}
    /\ b.processedBy \in Users \cup {Null}
    /\ b.userId \in Users

\* an insert that does not enforce UNIQUE(booking_id)
InsertOkNoUnique(bk, b) == RowOk(b)

\* booking_id is UNIQUE
InsertOk(bk, b) == RowOk(b) /\ \A i \in Ids(bk) : bk[i].bookingId # b.bookingId

\* A key of the request body; undefined when the body does not carry it.
BodyField(body, name) == IF name \in DOMAIN body THEN body[name] ELSE Undef
OrNull(v) == IF v = Undef THEN Null ELSE v

\* insertBookingSchema.parse: the schema keeps every column but id,
\* createdAt, updatedAt and submissionDate; a timestamp column other than
\* departureDate and returnDate takes a Date, which a JSON body cannot
\* carry.
ParseOk(body) ==
    /\ BodyField(body, "processedDate") = Undef
    /\ BodyField(body, "modifiedDate") = Undef

\* The row INSERT ... RETURNING gives for the parsed request: a column the
\* request does not carry takes its default.
NewRow(bk, u, code, body) ==
    [id |-> Len(bk) + 1,
     bookingId |-> code,
     userId |-> u,
     departureDate |-> body.departureDate,
     returnDate |-> body.returnDate,
     status |-> IF body.status = Undef THEN "pending" ELSE body.status,
     driverId |-> IF body.driverId = Undef THEN Null ELSE body.driverId,
     vehicleId |-> IF body.vehicleId = Undef THEN Null ELSE body.vehicleId,
     driverInstruction |-> OrNull(BodyField(body, "driverInstruction")),
     rejectionReason |-> OrNull(BodyField(body, "rejectionReason")),
     processedBy |-> OrNull(BodyField(body, "processedBy")),
     processedDate |-> NoDate,
     modifiedDate |-> NoDate]

createBooking(bk, b) == Append(bk, b)

Found(bk, id) == id \in Ids(bk)
getBooking(bk, id) == IF Found(bk, id) THEN bk[id] ELSE Null

\* UPDATE ... SET: a key whose value is undefined is left out of the SET
\* list, so the column keeps its value.  updates is a record of the keys
\* that carry a value.
UpdatedRow(b, updates) ==
    [f \in DOMAIN b |-> IF f \in DOMAIN updates THEN updates[f] ELSE b[f]]

\* UPDATE bookings SET ... with no WHERE clause
updateBookingEveryRow(bk, id, updates) ==
    [i \in Ids(bk) |-> UpdatedRow(bk[i], updates)]

updateBooking(bk, id, updates) ==
    [bk EXCEPT ![id] = UpdatedRow(bk[id], updates)]

\* The keys of a record whose value is not undefined.
Field(name, v) == IF v = Undef THEN <<>> ELSE name :> v

\* Variants of checkBookingConflicts with one condition changed.
\* both resource conditions required at once
checkBookingConflictsBoth(bk, departureDate, returnDate, driverId, vehicleId, excludeBookingId) ==
    LET base(b) == /\ b.status = "approved"
                   /\ b.departureDate < returnDate
                   /\ departureDate < b.returnDate
        exclude(b) == IF excludeBookingId # NoId THEN b.id # excludeBookingId ELSE TRUE
        resourceConditions ==
            (IF Truthy(driverId) THEN {"driver"} ELSE {}) \cup
            (IF Truthy(vehicleId) THEN {"vehicle"} ELSE {})
        resource(b) == /\ "driver" \in resourceConditions => b.driverId = driverId
                       /\ "vehicle" \in resourceConditions => b.vehicleId = vehicleId
    IN  IF resourceConditions = {} THEN {}
        ELSE {b \in Range(bk) : base(b) /\ exclude(b) /\ resource(b)}

\* closed intervals: touching endpoints overlap
checkBookingConflictsClosed(bk, departureDate, returnDate, driverId, vehicleId, excludeBookingId) ==
    LET base(b) == /\ b.status = "approved"
                   /\ b.departureDate <= returnDate
                   /\ departureDate <= b.returnDate
        exclude(b) == IF excludeBookingId # NoId THEN b.id # excludeBookingId ELSE TRUE
        resourceConditions ==
            (IF Truthy(driverId) THEN {"driver"} ELSE {}) \cup
            (IF Truthy(vehicleId) THEN {"vehicle"} ELSE {})
        resource(b) == \/ "driver" \in resourceConditions /\ b.driverId = driverId
                       \/ "vehicle" \in resourceConditions /\ b.vehicleId = vehicleId
    IN  IF resourceConditions = {} THEN {}
        ELSE {b \in Range(bk) : base(b) /\ exclude(b) /\ resource(b)}

\* no status condition
checkBookingConflictsAnyStatus(bk, departureDate, returnDate, driverId, vehicleId, excludeBookingId) ==
    LET base(b) == /\ b.departureDate < returnDate
                   /\ departureDate < b.returnDate
        exclude(b) == IF excludeBookingId # NoId THEN b.id # excludeBookingId ELSE TRUE
        resourceConditions ==
            (IF Truthy(driverId) THEN {"driver"} ELSE {}) \cup
            (IF Truthy(vehicleId) THEN {"vehicle"} ELSE {})
        resource(b) == \/ "driver" \in resourceConditions /\ b.driverId = driverId
                       \/ "vehicle" \in resourceConditions /\ b.vehicleId = vehicleId
    IN  IF resourceConditions = {} THEN {}
        ELSE {b \in Range(bk) : base(b) /\ exclude(b) /\ resource(b)}

\* no early return when no resource is given
checkBookingConflictsNoReturn(bk, departureDate, returnDate, driverId, vehicleId, excludeBookingId) ==
    LET base(b) == /\ b.status = "approved"
                   /\ b.departureDate < returnDate
                   /\ departureDate < b.returnDate
        exclude(b) == IF excludeBookingId # NoId THEN b.id # excludeBookingId ELSE TRUE
        resourceConditions ==
            (IF Truthy(driverId) THEN {"driver"} ELSE {}) \cup
            (IF Truthy(vehicleId) THEN {"vehicle"} ELSE {})
        resource(b) == \/ resourceConditions = {}
                       \/ "driver" \in resourceConditions /\ b.driverId = driverId
                       \/ "vehicle" \in resourceConditions /\ b.vehicleId = vehicleId
    IN  {b \in Range(bk) : base(b) /\ exclude(b) /\ resource(b)}

\* the overlap test with one comparison left out
checkBookingConflictsOneSided(bk, departureDate, returnDate, driverId, vehicleId, excludeBookingId) ==
    LET base(b) == /\ b.status = "approved"
                   /\ b.departureDate < returnDate
        exclude(b) == IF excludeBookingId # NoId THEN b.id # excludeBookingId ELSE TRUE
        resourceConditions ==
            (IF Truthy(driverId) THEN {"driver"} ELSE {}) \cup
            (IF Truthy(vehicleId) THEN {"vehicle"} ELSE {})
        resource(b) == \/ "driver" \in resourceConditions /\ b.driverId = driverId
                       \/ "vehicle" \in resourceConditions /\ b.vehicleId = vehicleId
    IN  IF resourceConditions = {} THEN {}
        ELSE {b \in Range(bk) : base(b) /\ exclude(b) /\ resource(b)}

checkBookingConflicts(bk, departureDate, returnDate, driverId, vehicleId, excludeBookingId) ==
    LET base(b) == /\ b.status = "approved"
                   /\ b.departureDate < returnDate
                   /\ departureDate < b.returnDate
        exclude(b) == IF excludeBookingId # NoId THEN b.id # excludeBookingId ELSE TRUE
        resourceConditions ==
            (IF Truthy(driverId) THEN {"driver"} ELSE {}) \cup
            (IF Truthy(vehicleId) THEN {"vehicle"} ELSE {})
        resource(b) == \/ "driver" \in resourceConditions /\ b.driverId = driverId
                       \/ "vehicle" \in resourceConditions /\ b.vehicleId = vehicleId
    IN  IF resourceConditions = {} THEN {}
        ELSE {b \in Range(bk) : base(b) /\ exclude(b) /\ resource(b)}

AuditEntry(bookingId, userId, action, oldValues, newValues, t) ==
    [bookingId |-> bookingId, userId |-> userId, action |-> action,
     oldValues |-> oldValues, newValues |-> newValues, timestamp |-> t]

createAuditEntry(au, entry) == Append(au, entry)

Response(status, message) == [status |-> status, message |-> message, conflicts |-> {}]
ConflictResponse(conflicts) ==
    [status |-> 400,
     message |-> "Booking conflicts detected with existing approved bookings",
     conflicts |-> conflicts]

\* ------------------------------------------------ POST /api/bookings
\* the date test accepts a departure equal to the current instant
CreateOutcomeNotPast(bk, au, t, u, body) ==
    LET code == generateBookingId(bk, t)
        row == NewRow(bk, u, code, body)
    IN  IF ~ParseOk(body)
        THEN [bookings |-> bk, auditTrail |-> au,
              resp |-> Response(400, "Invalid booking data")]
        ELSE IF body.departureDate < t
        THEN [bookings |-> bk, auditTrail |-> au,
              resp |-> Response(400, "Booking must be for future dates only")]
        ELSE IF ~InsertOk(bk, row)
        THEN [bookings |-> bk, auditTrail |-> au, resp |-> Response(500, "error")]
        ELSE [bookings |-> createBooking(bk, row),
              auditTrail |-> createAuditEntry(au,
                  AuditEntry(row.id, u, "created", Null, row, t)),
              resp |-> Response(200, "created")]

CreateOutcome(bk, au, t, u, body) ==
    LET code == generateBookingId(bk, t)
        row == NewRow(bk, u, code, body)
    IN  IF ~ParseOk(body)
        THEN [bookings |-> bk, auditTrail |-> au,
              resp |-> Response(400, "Invalid booking data")]
        ELSE IF body.departureDate <= t
        THEN [bookings |-> bk, auditTrail |-> au,
              resp |-> Response(400, "Booking must be for future dates only")]
        ELSE IF ~InsertOk(bk, row)
        THEN [bookings |-> bk, auditTrail |-> au, resp |-> Response(500, "error")]
        ELSE [bookings |-> createBooking(bk, row),
              auditTrail |-> createAuditEntry(au,
                  AuditEntry(row.id, u, "created", Null, row, t)),
              resp |-> Response(200, "created")]

Create(u, body) ==
    /\ Len(bookings) < MaxBookings
    /\ Len(auditTrail) < MaxAudit
    /\ LET out == CreateOutcome(bookings, auditTrail, now, u, body)
       IN  /\ bookings' = out.bookings
           /\ auditTrail' = out.auditTrail
           /\ resp' = out.resp
    /\ UNCHANGED <<now, procs, call, fleet>>

\* ------------------------------------- PUT /api/bookings/:id/process
MayProcess(u) == UserRole[u] = "admin" \/ UserRole[u] = "superadmin"

NeedsConflictCheck(body) ==
    body.status = "approved" /\ Truthy(body.driverId) /\ Truthy(body.vehicleId)

ProcessUpdates(u, body, t) ==
    Field("status", body.status) @@
    [processedBy |-> u, processedDate |-> t] @@
    (IF body.status = "approved"
     THEN Field("driverId", body.driverId) @@ Field("vehicleId", body.vehicleId) @@
          Field("driverInstruction", body.driverInstruction)
     ELSE IF body.status = "rejected"
     THEN Field("rejectionReason", body.rejectionReason)
     ELSE <<>>)

ProcessAction(body) == IF body.status = "approved" THEN "approved" ELSE "rejected"

Unchanged(bk, au, r) == [bookings |-> bk, auditTrail |-> au, resp |-> r]

\* updateBooking followed by createAuditEntry, as every handler ends
WriteOutcome(bk, au, t, u, id, existing, updates, action) ==
    IF ~RowOk(UpdatedRow(bk[id], updates))
    THEN Unchanged(bk, au, Response(500, "error"))
    ELSE LET updated == updateBooking(bk, id, updates)
         IN  [bookings |-> updated,
              auditTrail |-> createAuditEntry(au,
                  AuditEntry(id, u, action, existing, updated[id], t)),
              resp |-> Response(200, action)]

ProcessOutcome(bk, au, t, u, id, body) ==
    LET existingBooking == getBooking(bk, id)
        conflicts == checkBookingConflicts(bk, existingBooking.departureDate,
                         existingBooking.returnDate, body.driverId, body.vehicleId, id)
    IN  IF ~MayProcess(u) THEN Unchanged(bk, au, Response(403, "Access denied"))
        ELSE IF ~Found(bk, id)
        THEN Unchanged(bk, au, Response(404, "Booking not found"))
        ELSE IF NeedsConflictCheck(body) /\ conflicts # {}
        THEN Unchanged(bk, au, ConflictResponse(conflicts))
        ELSE WriteOutcome(bk, au, t, u, id, existingBooking,
                          ProcessUpdates(u, body, t), ProcessAction(body))

Process(u, id, body) ==
    /\ Len(auditTrail) < MaxAudit
    /\ LET out == ProcessOutcome(bookings, auditTrail, now, u, id, body)
       IN  /\ bookings' = out.bookings
           /\ auditTrail' = out.auditTrail
           /\ resp' = out.resp
    /\ UNCHANGED <<now, procs, call, fleet>>

\* -------------------------------------- PUT /api/bookings/:id/modify
\* the role test of the process route used for modify
MayModifyAsProcess(u) == UserRole[u] = "admin" \/ UserRole[u] = "superadmin"

MayModify(u) == UserRole[u] = "superadmin"

ModifyUpdates(body, t) ==
    Field("status", body.status) @@ Field("driverId", body.driverId) @@
    Field("vehicleId", body.vehicleId) @@
    Field("driverInstruction", body.driverInstruction) @@
    [modifiedDate |-> t]

ModifyOutcome(bk, au, t, u, id, body) ==
    LET existingBooking == getBooking(bk, id)
        conflicts == checkBookingConflicts(bk, existingBooking.departureDate,
                         existingBooking.returnDate, body.driverId, body.vehicleId, id)
    IN  IF ~MayModify(u)
        THEN Unchanged(bk, au,
                 Response(403, "Only Super Admin can modify processed bookings"))
        ELSE IF ~Found(bk, id)
        THEN Unchanged(bk, au, Response(404, "Booking not found"))
        ELSE IF NeedsConflictCheck(body) /\ conflicts # {}
        THEN Unchanged(bk, au, ConflictResponse(conflicts))
        ELSE WriteOutcome(bk, au, t, u, id, existingBooking,
                          ModifyUpdates(body, t), "modified")

Modify(u, id, body) ==
    /\ Len(auditTrail) < MaxAudit
    /\ LET out == ModifyOutcome(bookings, auditTrail, now, u, id, body)
       IN  /\ bookings' = out.bookings
           /\ auditTrail' = out.auditTrail
           /\ resp' = out.resp
    /\ UNCHANGED <<now, procs, call, fleet>>

\* ------------------------------------- POST /api/bookings/:id/cancel
CancelUpdates(u, t) == [status |-> "dibatalkan", processedDate |-> t, processedBy |-> u]

\* cancel without the test of the owner
CancelOutcomeAnyUser(bk, au, t, u, id) ==
    LET existingBooking == getBooking(bk, id)
    IN  IF ~Found(bk, id)
        THEN Unchanged(bk, au, Response(404, "Booking not found"))
        ELSE IF existingBooking.status # "pending" /\ existingBooking.status # "approved"
        THEN Unchanged(bk, au,
                 Response(400, "Only pending or approved bookings can be cancelled"))
        ELSE IF existingBooking.departureDate <= t
        THEN Unchanged(bk, au,
                 Response(400, "Cannot cancel bookings that have already started"))
        ELSE WriteOutcome(bk, au, t, u, id, existingBooking,
                          CancelUpdates(u, t), "cancelled")

\* cancel with the test of the status before the test of the owner
CancelOutcomeStatusFirst(bk, au, t, u, id) ==
    LET existingBooking == getBooking(bk, id)
    IN  IF ~Found(bk, id)
        THEN Unchanged(bk, au, Response(404, "Booking not found"))
        ELSE IF existingBooking.status # "pending" /\ existingBooking.status # "approved"
        THEN Unchanged(bk, au,
                 Response(400, "Only pending or approved bookings can be cancelled"))
        ELSE IF existingBooking.userId # u
        THEN Unchanged(bk, au, Response(403, "You can only cancel your own bookings"))
        ELSE IF existingBooking.departureDate <= t
        THEN Unchanged(bk, au,
                 Response(400, "Cannot cancel bookings that have already started"))
        ELSE WriteOutcome(bk, au, t, u, id, existingBooking,
                          CancelUpdates(u, t), "cancelled")

CancelOutcome(bk, au, t, u, id) ==
    LET existingBooking == getBooking(bk, id)
    IN  IF ~Found(bk, id)
        THEN Unchanged(bk, au, Response(404, "Booking not found"))
        ELSE IF existingBooking.userId # u
        THEN Unchanged(bk, au, Response(403, "You can only cancel your own bookings"))
        ELSE IF existingBooking.status # "pending" /\ existingBooking.status # "approved"
        THEN Unchanged(bk, au,
                 Response(400, "Only pending or approved bookings can be cancelled"))
        ELSE IF existingBooking.departureDate <= t
        THEN Unchanged(bk, au,
                 Response(400, "Cannot cancel bookings that have already started"))
        ELSE WriteOutcome(bk, au, t, u, id, existingBooking,
                          CancelUpdates(u, t), "cancelled")

Cancel(u, id) ==
    /\ Len(auditTrail) < MaxAudit
    /\ LET out == CancelOutcome(bookings, auditTrail, now, u, id)
       IN  /\ bookings' = out.bookings
           /\ auditTrail' = out.auditTrail
           /\ resp' = out.resp
    /\ UNCHANGED <<now, procs, call, fleet>>

\* ---------------------------------------------------------------------
\* The same handlers one await at a time: between two awaits of a request
\* the other requests in flight may run.  A request keeps what it has read
\* in procs[p].
InFlight == {p \in Procs : procs[p].pc # "idle"}
Creating == {p \in Procs : procs[p].pc \in {"insert", "auditCreated"}}

Done(p, r) ==
    /\ procs' = [procs EXCEPT ![p] = Idle]
    /\ resp' = r

Goto(p, local) ==
    /\ procs' = [procs EXCEPT ![p] = local]
    /\ resp' = NoResp

\* POST /api/bookings: await generateBookingId, then parse and the date test
CreateGenerate(p, u, body) ==
    /\ procs[p].pc = "idle"
    /\ Len(bookings) + Cardinality(Creating) < MaxBookings
    /\ Len(auditTrail) + Cardinality(InFlight) < MaxAudit
    /\ LET code == generateBookingId(bookings, now)
       IN  IF ~ParseOk(body) THEN Done(p, Response(400, "Invalid booking data"))
           ELSE IF body.departureDate <= now
           THEN Done(p, Response(400, "Booking must be for future dates only"))
           ELSE Goto(p, [pc |-> "insert", op |-> "create", u |-> u, body |-> body,
                         code |-> code])
    /\ UNCHANGED <<bookings, auditTrail, now, call, fleet>>

\* await storage.createBooking
CreateInsert(p) ==
    /\ procs[p].pc = "insert"
    /\ LET l == procs[p]
           row == NewRow(bookings, l.u, l.code, l.body)
       IN  IF ~InsertOk(bookings, row)
           THEN /\ Done(p, Response(500, "error"))
                /\ UNCHANGED bookings
           ELSE /\ bookings' = createBooking(bookings, row)
                /\ Goto(p, [pc |-> "auditCreated", op |-> "create", u |-> l.u,
                            booking |-> row])
    /\ UNCHANGED <<auditTrail, now, call, fleet>>

\* await storage.createAuditEntry, then the response
CreateAudit(p) ==
    /\ procs[p].pc = "auditCreated"
    /\ LET l == procs[p]
       IN  auditTrail' = createAuditEntry(auditTrail,
               AuditEntry(l.booking.id, l.u, "created", Null, l.booking, now))
    /\ Done(p, Response(200, "created"))
    /\ UNCHANGED <<bookings, now, call, fleet>>

\* process and modify: await getUser and getBooking
ProcessRead(p, u, id, body) ==
    /\ procs[p].pc = "idle"
    /\ Len(auditTrail) + Cardinality(InFlight) < MaxAudit
    /\ IF ~MayProcess(u) THEN Done(p, Response(403, "Access denied"))
       ELSE IF ~Found(bookings, id) THEN Done(p, Response(404, "Booking not found"))
       ELSE Goto(p, [pc |-> IF NeedsConflictCheck(body) THEN "check" ELSE "update",
                     op |-> "process", u |-> u, id |-> id, body |-> body,
                     existingBooking |-> getBooking(bookings, id),
                     updates |-> ProcessUpdates(u, body, now),
                     action |-> ProcessAction(body)])
    /\ UNCHANGED <<bookings, auditTrail, now, call, fleet>>

ModifyRead(p, u, id, body) ==
    /\ procs[p].pc = "idle"
    /\ Len(auditTrail) + Cardinality(InFlight) < MaxAudit
    /\ IF ~MayModify(u)
       THEN Done(p, Response(403, "Only Super Admin can modify processed bookings"))
       ELSE IF ~Found(bookings, id) THEN Done(p, Response(404, "Booking not found"))
       ELSE Goto(p, [pc |-> IF NeedsConflictCheck(body) THEN "check" ELSE "update",
                     op |-> "modify", u |-> u, id |-> id, body |-> body,
                     existingBooking |-> getBooking(bookings, id),
                     updates |-> ModifyUpdates(body, now),
                     action |-> "modified"])
    /\ UNCHANGED <<bookings, auditTrail, now, call, fleet>>

\* await storage.checkBookingConflicts
ConflictCheck(p) ==
    /\ procs[p].pc = "check"
    /\ LET l == procs[p]
           conflicts == checkBookingConflicts(bookings, l.existingBooking.departureDate,
                            l.existingBooking.returnDate, l.body.driverId,
                            l.body.vehicleId, l.id)
       IN  IF conflicts # {} THEN Done(p, ConflictResponse(conflicts))
           ELSE Goto(p, [l EXCEPT !.pc = "update"])
    /\ UNCHANGED <<bookings, auditTrail, now, call, fleet>>

\* POST /api/bookings/:id/cancel: await getBooking and the three tests
CancelRead(p, u, id) ==
    /\ procs[p].pc = "idle"
    /\ Len(auditTrail) + Cardinality(InFlight) < MaxAudit
    /\ LET existingBooking == getBooking(bookings, id)
       IN  IF ~Found(bookings, id) THEN Done(p, Response(404, "Booking not found"))
           ELSE IF existingBooking.userId # u
           THEN Done(p, Response(403, "You can only cancel your own bookings"))
           ELSE IF existingBooking.status # "pending" /\ existingBooking.status # "approved"
           THEN Done(p, Response(400, "Only pending or approved bookings can be cancelled"))
           ELSE IF existingBooking.departureDate <= now
           THEN Done(p, Response(400, "Cannot cancel bookings that have already started"))
           ELSE Goto(p, [pc |-> "update", op |-> "cancel", u |-> u, id |-> id,
                         existingBooking |-> existingBooking,
                         updates |-> CancelUpdates(u, now),
                         action |-> "cancelled"])
    /\ UNCHANGED <<bookings, auditTrail, now, call, fleet>>

\* await storage.updateBooking
Update(p) ==
    /\ procs[p].pc = "update"
    /\ LET l == procs[p]
       IN  IF ~RowOk(UpdatedRow(bookings[l.id], l.updates))
           THEN /\ Done(p, Response(500, "error"))
                /\ UNCHANGED bookings
           ELSE /\ bookings' = updateBooking(bookings, l.id, l.updates)
                /\ Goto(p, [pc |-> "audit", op |-> l.op, u |-> l.u, id |-> l.id,
                            existingBooking |-> l.existingBooking,
                            updatedBooking |-> bookings'[l.id],
                            action |-> l.action])
    /\ UNCHANGED <<auditTrail, now, call, fleet>>

\* await storage.createAuditEntry, then the response
Audit(p) ==
    /\ procs[p].pc = "audit"
    /\ LET l == procs[p]
       IN  auditTrail' = createAuditEntry(auditTrail,
               AuditEntry(l.id, l.u, l.action, l.existingBooking, l.updatedBooking, now))
    /\ Done(p, Response(200, procs[p].action))
    /\ UNCHANGED <<bookings, now, call, fleet>>

\* ------------------------------------------------------------ the inputs
Intervals == {<<1, 3>>, <<2, 4>>, <<3, 5>>}
CreateBody(iv, status, d, v) ==
    [departureDate |-> iv[1], returnDate |-> iv[2], status |-> status,
     driverId |-> d, vehicleId |-> v]
CreateBodies == {CreateBody(iv, Undef, Undef, Undef) : iv \in Intervals}

ProcessBody(status, d, v, instr, reason) ==
    [status |-> status, driverId |-> d, vehicleId |-> v,
     driverInstruction |-> instr, rejectionReason |-> reason]
ProcessBodies ==
    {ProcessBody("approved", a[1], a[2], "Driver Must Wait", Undef) :
        a \in {<<"d1", "v1">>, <<"d2", "v2">>, <<"d1", Undef>>, <<Undef, "v1">>}}
    \cup {ProcessBody("rejected", Undef, Undef, Undef, "reason")}
ModifyBodies ==
    {ProcessBody("approved", "d1", "v1", Undef, Undef),
     ProcessBody("approved", "d1", Undef, Undef, Undef),
     ProcessBody("rejected", Undef, Undef, Undef, Undef),
     ProcessBody("rejected", "d1", "v1", Undef, Undef)}
BookingIds == 1 .. MaxBookings

Init ==
    /\ bookings = <<>>
    /\ auditTrail = <<>>
    /\ now = 0
    /\ resp = NoResp
    /\ procs = [p \in Procs |-> Idle]
    /\ call = NoCall
    /\ fleet = AllActive

Next ==
    \/ \E u \in {"u1"}, body \in CreateBodies : Create(u, body)
    \/ \E u \in {"a1"}, id \in BookingIds, body \in ProcessBodies : Process(u, id, body)
    \/ \E u \in {"s1"}, id \in BookingIds, body \in ModifyBodies : Modify(u, id, body)
    \/ \E u \in {"u1"}, id \in BookingIds : Cancel(u, id)

Spec == Init /\ [][Next]_vars

\* The requests of two connections, interleaved at their awaits.
ConcIntervals == {<<1, 3>>, <<2, 4>>}
ConcCreateBodies == {CreateBody(iv, Undef, Undef, Undef) : iv \in ConcIntervals}
ConcProcessBodies ==
    {ProcessBody("approved", "d1", "v1", "Driver Must Wait", Undef),
     ProcessBody("rejected", Undef, Undef, Undef, "reason")}
ConcModifyBodies == {ProcessBody("approved", "d1", "v1", Undef, Undef)}

NextConc ==
    \/ \E p \in Procs, body \in ConcCreateBodies : CreateGenerate(p, "u1", body)
    \/ \E p \in Procs : CreateInsert(p)
    \/ \E p \in Procs : CreateAudit(p)
    \/ \E p \in Procs, id \in BookingIds, body \in ConcProcessBodies :
          ProcessRead(p, "a1", id, body)
    \/ \E p \in Procs, id \in BookingIds, body \in ConcModifyBodies :
          ModifyRead(p, "s1", id, body)
    \/ \E p \in Procs : ConflictCheck(p)
    \/ \E p \in Procs, id \in BookingIds : CancelRead(p, "u1", id)
    \/ \E p \in Procs : Update(p)
    \/ \E p \in Procs : Audit(p)

SpecConc == Init /\ [][NextConc]_vars

\* checkBookingConflicts called directly on a stored table.
StoredRow(i, status, iv, d, v) ==
    [NewRow(<<>>, "u1", <<2, 5>> \o PadStart(ToDigits(i), 3), CreateBody(iv, status, d, v))
        EXCEPT !.id = i]
StoredRows(i) ==
    {StoredRow(i, status, iv, d, v) :
        status \in {"approved", "pending"}, iv \in Intervals,
        d \in Drivers, v \in Vehicles}
RECURSIVE StoresOfLen(_)
StoresOfLen(n) ==
    IF n = 0 THEN {<<>>}
    ELSE {Append(bk, r) : bk \in StoresOfLen(n - 1), r \in StoredRows(n)}
Stores == UNION {StoresOfLen(n) : n \in 0 .. MaxBookings}
Queries ==
    [departureDate : {1, 2, 3}, returnDate : {3, 4, 5},
     driverId : {Undef, "d1"}, vehicleId : {Undef, "v1"},
     excludeBookingId : {NoId, 1}]

InitConflicts ==
    /\ bookings \in Stores
    /\ auditTrail = <<>>
    /\ now = 0
    /\ resp = NoResp
    /\ procs = [p \in Procs |-> Idle]
    /\ call = NoCall
    /\ fleet = AllActive

CheckConflicts(q) ==
    /\ call = NoCall
    /\ call' = [fn |-> "checkBookingConflicts", args |-> q,
                result |-> checkBookingConflicts(bookings, q.departureDate, q.returnDate,
                               q.driverId, q.vehicleId, q.excludeBookingId)]
    /\ UNCHANGED <<bookings, auditTrail, now, resp, procs, fleet>>

NextConflicts == \E q \in Queries : CheckConflicts(q)

SpecConflicts == InitConflicts /\ [][NextConflicts]_vars

\* checkBookingConflicts called for two stored reservations in turn, each
\* with its own interval, driver and vehicle, itself excluded.
AssignedRows(i) ==
    {StoredRow(i, status, iv, d, v) :
        status \in {"approved", "pending"}, iv \in Intervals,
        d \in Drivers \cup {Null}, v \in {"v1", Null}}
RECURSIVE AssignedStoresOfLen(_)
AssignedStoresOfLen(n) ==
    IF n = 0 THEN {<<>>}
    ELSE {Append(bk, r) : bk \in AssignedStoresOfLen(n - 1), r \in AssignedRows(n)}

InitSymmetry ==
    /\ \E n \in 0 .. MaxBookings : bookings \in AssignedStoresOfLen(n)
    /\ auditTrail = <<>>
    /\ now = 0
    /\ resp = NoResp
    /\ procs = [p \in Procs |-> Idle]
    /\ call = NoCall
    /\ fleet = AllActive

ConflictsFor(bk, id) ==
    checkBookingConflicts(bk, bk[id].departureDate, bk[id].returnDate,
                          bk[id].driverId, bk[id].vehicleId, id)

CheckPair(a, b) ==
    /\ call = NoCall
    /\ a # b
    /\ call' = [fn |-> "checkPair", a |-> a, b |-> b,
                fromA |-> ConflictsFor(bookings, a),
                fromB |-> ConflictsFor(bookings, b)]
    /\ UNCHANGED <<bookings, auditTrail, now, resp, procs, fleet>>

NextSymmetry == \E a \in Ids(bookings), b \in Ids(bookings) : CheckPair(a, b)

SpecSymmetry == InitSymmetry /\ [][NextSymmetry]_vars

\* ---------------------------------------------------------------------
\* The clock.  YearOf maps an instant to its calendar year, two instants a
\* year.
Tick ==
    /\ now < MaxTime
    /\ now' = now + 1
    /\ resp' = NoResp
    /\ UNCHANGED <<bookings, auditTrail, procs, call, fleet>>

\* The booking id generator on a table that holds the codes of earlier
\* creations: n of the year before the current one and m of the current
\* year, issued in order.  No route deletes a booking.
PriorCounts == {0, 1, 999}
IssuedCounts == {0, 1, 9, 10, 99, 100, 998, 999}
YearPrefix(y) == LET d == ToDigits(y) IN SubSeq(d, Len(d) - 1, Len(d))
IssuedCode(y, k) == YearPrefix(y) \o PadStart(ToDigits(k), 3)
IssuedRow(i, code) ==
    [NewRow(<<>>, "u1", code, CreateBody(<<1, 3>>, Undef, Undef, Undef)) EXCEPT !.id = i]
IssuedTable(y, n, m) ==
    [i \in 1 .. (n + m) |->
        IssuedRow(i, IF i <= n THEN IssuedCode(y - 1, i) ELSE IssuedCode(y, i - n))]
CodesCreateBodies == {CreateBody(<<MaxTime + 1, MaxTime + 2>>, Undef, Undef, Undef)}

InitCodes ==
    /\ now \in 0 .. MaxTime
    /\ \E n \in PriorCounts, m \in IssuedCounts :
          bookings = IssuedTable(YearOf(now), n, m)
    /\ auditTrail = <<>>
    /\ resp = NoResp
    /\ procs = [p \in Procs |-> Idle]
    /\ call = NoCall
    /\ fleet = AllActive

Generate ==
    /\ call = NoCall
    /\ call' = [fn |-> "generateBookingId", result |-> generateBookingId(bookings, now)]
    /\ UNCHANGED <<bookings, auditTrail, now, resp, procs, fleet>>

CreateIssued(u, body) ==
    /\ call = NoCall
    /\ Len(auditTrail) < MaxIssued
    /\ LET out == CreateOutcome(bookings, auditTrail, now, u, body)
       IN  /\ bookings' = out.bookings
           /\ auditTrail' = out.auditTrail
           /\ resp' = out.resp
    /\ UNCHANGED <<now, procs, call, fleet>>

NextCodes ==
    \/ Generate
    \/ \E body \in CodesCreateBodies : CreateIssued("u1", body)
    \/ call = NoCall /\ Tick

SpecCodes == InitCodes /\ [][NextCodes]_vars

\* POST /api/bookings with the bodies a client can send, the form's own
\* checks bypassed, while the clock runs.
RequestBodies ==
    {CreateBody(<<1, 3>>, Undef, Undef, Undef),
     CreateBody(<<3, 5>>, Undef, Undef, Undef),
     CreateBody(<<3, 3>>, Undef, Undef, Undef),
     CreateBody(<<3, 2>>, Undef, Undef, Undef),
     CreateBody(<<3, 5>>, Undef, "d1", Undef),
     CreateBody(<<3, 5>>, "approved", "d1", "v1"),
     ("processedBy" :> "a1") @@ CreateBody(<<3, 5>>, "rejected", Undef, Undef),
     ("processedDate" :> "2025-01-01") @@ CreateBody(<<3, 5>>, "approved", Undef, Undef)}

NextCreate ==
    \/ \E body \in RequestBodies : Create("u1", body)
    \/ Tick

SpecCreate == Init /\ [][NextCreate]_vars

\* The process and modify routes called by every kind of user, with the
\* bodies the routes accept: any status of the enum, ids of drivers and
\* vehicles that do not exist.
RequestUsers == {"u1", "a1", "s1"}
ProcessRequests ==
    {ProcessBody("approved", "d1", "v1", "Driver Must Wait", Undef),
     ProcessBody("approved", "d9", "v1", "Driver Must Wait", Undef),
     ProcessBody("rejected", Undef, Undef, Undef, "reason"),
     ProcessBody("pending", Undef, Undef, Undef, Undef)}
ModifyRequests ==
    {ProcessBody("approved", "d1", "v1", Undef, Undef),
     ProcessBody("approved", "d1", "v9", Undef, Undef),
     ProcessBody("rejected", Undef, Undef, Undef, Undef)}

NextRequests ==
    \/ Create("u1", CreateBody(<<1, 3>>, Undef, Undef, Undef))
    \/ \E u \in RequestUsers, id \in BookingIds, body \in ProcessRequests :
          Process(u, id, body)
    \/ \E u \in RequestUsers, id \in BookingIds, body \in ModifyRequests :
          Modify(u, id, body)

SpecRequests == Init /\ [][NextRequests]_vars

\* Cancel by the owner and by another user while the clock runs.
CancelUsers == {"u1", "u2"}
CancelCreateBodies ==
    {CreateBody(<<1, 3>>, Undef, Undef, Undef), CreateBody(<<3, 5>>, Undef, Undef, Undef)}
CancelProcessBodies ==
    {ProcessBody("approved", "d1", "v1", "Driver Must Wait", Undef),
     ProcessBody("rejected", Undef, Undef, Undef, "reason")}

NextCancel ==
    \/ \E body \in CancelCreateBodies : Create("u1", body)
    \/ \E id \in BookingIds, body \in CancelProcessBodies : Process("a1", id, body)
    \/ \E u \in CancelUsers, id \in BookingIds : Cancel(u, id)
    \/ Tick

SpecCancel == Init /\ [][NextCancel]_vars

\* The interleaved handlers with an await of createAuditEntry that
\* rejects: the catch clause of the handler answers 500 and nothing undoes
\* the write the handler has made.
Failures == IF call.fn = "createAuditEntry" THEN call.failures ELSE 0
AuditFails(p) ==
    /\ procs[p].pc \in {"audit", "auditCreated"}
    /\ Failures < MaxFailures
    /\ call' = [fn |-> "createAuditEntry", failures |-> Failures + 1]
    /\ Done(p, Response(500, "error"))
    /\ UNCHANGED <<bookings, auditTrail, now, fleet>>

NextFail ==
    \/ \E p \in Procs : CreateGenerate(p, "u1", CreateBody(<<1, 3>>, Undef, Undef, Undef))
    \/ \E p \in Procs : CreateInsert(p)
    \/ \E p \in Procs : CreateAudit(p)
    \/ \E p \in Procs, id \in BookingIds :
          ProcessRead(p, "a1", id, ProcessBody("approved", "d1", "v1", "Driver Must Wait", Undef))
    \/ \E p \in Procs : ConflictCheck(p)
    \/ \E p \in Procs : Update(p)
    \/ \E p \in Procs : Audit(p)
    \/ \E p \in Procs : AuditFails(p)

SpecFail == Init /\ [][NextFail]_vars

\* ---------------------------------------------------------------------
\* The notifier.  After its writes a handler sends an e-mail when the
\* e-mail service is configured: the provider answers true or false, and
\* the call may throw; the handler's try/catch logs what is thrown.
MailOutcomes == {"unconfigured", "sent", "failed", "throws"}
SendResult(mail) ==
    CASE mail = "sent" -> "true"
      [] mail = "failed" -> "false"
      [] mail = "throws" -> "thrown"

\* what is thrown leaves the try block and reaches handleError
NotifyUncaught(out, mail) ==
    IF out.resp.status # 200 \/ mail = "unconfigured" THEN out
    ELSE IF SendResult(mail) = "thrown"
    THEN [out EXCEPT !.resp = Response(500, "error")]
    ELSE out

Notify(out, mail) ==
    IF out.resp.status # 200 \/ mail = "unconfigured" THEN out
    ELSE IF SendResult(mail) = "thrown"
    THEN out
    ELSE out

Notified(out, mail) ==
    /\ bookings' = out.bookings
    /\ auditTrail' = out.auditTrail
    /\ resp' = out.resp
    /\ call' = [fn |-> "emailService", outcome |-> mail]
    /\ UNCHANGED <<now, procs, fleet>>

CreateNotify(u, body, mail) ==
    /\ Len(bookings) < MaxBookings
    /\ Len(auditTrail) < MaxAudit
    /\ Notified(Notify(CreateOutcome(bookings, auditTrail, now, u, body), mail), mail)

ProcessNotify(u, id, body, mail) ==
    /\ Len(auditTrail) < MaxAudit
    /\ Notified(Notify(ProcessOutcome(bookings, auditTrail, now, u, id, body), mail), mail)

ModifyNotify(u, id, body, mail) ==
    /\ Len(auditTrail) < MaxAudit
    /\ Notified(Notify(ModifyOutcome(bookings, auditTrail, now, u, id, body), mail), mail)

NotifyCreateBodies == {CreateBody(<<1, 3>>, Undef, Undef, Undef)}
NotifyProcessBodies ==
    {ProcessBody("approved", "d1", "v1", "Driver Must Wait", Undef),
     ProcessBody("rejected", Undef, Undef, Undef, "reason")}
NotifyModifyBodies == {ProcessBody("approved", "d1", "v1", Undef, Undef)}

NextNotify ==
    \/ \E body \in NotifyCreateBodies, mail \in MailOutcomes :
          CreateNotify("u1", body, mail)
    \/ \E id \in BookingIds, body \in NotifyProcessBodies, mail \in MailOutcomes :
          ProcessNotify("a1", id, body, mail)
    \/ \E id \in BookingIds, body \in NotifyModifyBodies, mail \in MailOutcomes :
          ModifyNotify("s1", id, body, mail)

SpecNotify == Init /\ [][NextNotify]_vars

\* ---------------------------------------------------------------------
\* Statistics.  SELECT status, count(*) ... GROUP BY status gives one row
\* for each status that some reservation has; every row with a status and
\* a count is written into the result under its status.
StatusGroups(bk) ==
    {[status |-> s, count |-> Cardinality({i \in Ids(bk) : bk[i].status = s})] :
        s \in {bk[i].status : i \in Ids(bk)}}

getBookingStats(bk) ==
    LET stats == {stat \in StatusGroups(bk) : Truthy(stat.status) /\ stat.count # 0}
        result == [pending |-> 0, approved |-> 0, rejected |-> 0]
        keys == DOMAIN result \cup {stat.status : stat \in stats}
    IN  [k \in keys |->
            IF \E stat \in stats : stat.status = k
            THEN (CHOOSE stat \in stats : stat.status = k).count
            ELSE result[k]]

\* SELECT ... FROM drivers / vehicles WHERE is_active = true
getAllDrivers(fl) == {d \in DOMAIN fl.drivers : fl.drivers[d] = TRUE}
getAllVehicles(fl) == {v \in DOMAIN fl.vehicles : fl.vehicles[v] = TRUE}

\* `${vehicles.filter(v => v.isActive).length}/${vehicles.length}` over the
\* rows getAllVehicles returns, kept as the pair of the two numbers
availableVehicles(fl) ==
    LET vehicles == getAllVehicles(fl)
    IN  <<Cardinality({v \in vehicles : fl.vehicles[v]}), Cardinality(vehicles)>>

Stats ==
    /\ call' = [fn |-> "getBookingStats", result |-> getBookingStats(bookings),
                availableVehicles |-> availableVehicles(fleet)]
    /\ resp' = Response(200, "stats")
    /\ UNCHANGED <<bookings, auditTrail, now, procs, fleet>>

NextStats ==
    \/ \E body \in CancelCreateBodies : Create("u1", body)
    \/ \E id \in BookingIds, body \in CancelProcessBodies : Process("a1", id, body)
    \/ \E id \in BookingIds : Cancel("u1", id)
    \/ Stats

SpecStats == Init /\ [][NextStats]_vars

\* ---------------------------------------------------------------------
\* The drivers and vehicles routes.  DELETE is UPDATE ... SET is_active =
\* false; PUT sets the columns of the body.  An id that matches no row
\* updates nothing.
MayManageFleet(u) == UserRole[u] = "admin" \/ UserRole[u] = "superadmin"

SetActive(table, id, active) ==
    [r \in DOMAIN table |-> IF r = id THEN active ELSE table[r]]

\* DELETE FROM drivers WHERE id = ...
deleteDriverHard(fl, id) ==
    [fl EXCEPT !.drivers = [d \in DOMAIN fl.drivers \ {id} |-> fl.drivers[d]]]

deleteDriver(fl, id) == [fl EXCEPT !.drivers = SetActive(fl.drivers, id, FALSE)]
deleteVehicle(fl, id) == [fl EXCEPT !.vehicles = SetActive(fl.vehicles, id, FALSE)]
updateVehicle(fl, id, updates) ==
    [fl EXCEPT !.vehicles = SetActive(fl.vehicles, id, updates.isActive)]

FleetStep(u, fl, message) ==
    /\ IF ~MayManageFleet(u)
       THEN fleet' = fleet /\ resp' = Response(403, "Access denied")
       ELSE fleet' = fl /\ resp' = Response(200, message)
    /\ UNCHANGED <<bookings, auditTrail, now, procs, call>>

DeleteDriver(u, id) == FleetStep(u, deleteDriver(fleet, id), "Driver deleted successfully")
DeleteVehicle(u, id) == FleetStep(u, deleteVehicle(fleet, id), "Vehicle deleted successfully")
UpdateVehicle(u, id, body) == FleetStep(u, updateVehicle(fleet, id, body), "vehicle")

FleetUsers == {"u1", "a1"}
DriverIds == Drivers \cup {"d9"}
VehicleIds == Vehicles \cup {"v9"}

NextFleet ==
    \/ Create("u1", CreateBody(<<1, 3>>, Undef, Undef, Undef))
    \/ \E id \in BookingIds :
          Process("a1", id, ProcessBody("approved", "d1", "v1", "Driver Must Wait", Undef))
    \/ \E u \in FleetUsers, id \in DriverIds : DeleteDriver(u, id)
    \/ \E u \in FleetUsers, id \in VehicleIds : DeleteVehicle(u, id)
    \/ \E u \in FleetUsers, id \in VehicleIds : UpdateVehicle(u, id, [isActive |-> TRUE])
    \/ Stats

SpecFleet == Init /\ [][NextFleet]_vars

\* ---------------------------------------------------------------------
\* The working-day calculator of the client (lib/utils).  A Date is a
\* number of half days since Friday 2024-12-27 00:00 local time, so every
\* day has a midnight and a later instant; the days run into January 2025.
TicksPerDay == 2
DayOf(date) == date \div TicksPerDay
Instants == 0 .. (MaxDay + 1) * TicksPerDay - 1

getFullYear(date) == IF DayOf(date) <= 4 THEN 2024 ELSE 2025
getMonth(date) == IF DayOf(date) <= 4 THEN 11 ELSE 0
getDate(date) == IF DayOf(date) <= 4 THEN 27 + DayOf(date) ELSE DayOf(date) - 4
getDay(date) == (5 + DayOf(date)) % 7          \* 0 is Sunday, 6 is Saturday

\* new Date(year, month, date): the midnight of that day
NewDate(year, month, date) ==
    (IF year = 2024 THEN date - 27 ELSE date + 4) * TicksPerDay

\* the holidays as pairs <<month, date>>
getPublicHolidays(year) ==
    {<<0, 1>>, <<1, 1>>, <<4, 1>>, <<7, 31>>, <<8, 16>>, <<11, 25>>} \cup
    (IF year = 2025
     THEN {<<0, 29>>, <<0, 30>>, <<2, 30>>, <<2, 31>>, <<4, 12>>, <<4, 30>>,
           <<5, 1>>, <<8, 7>>, <<9, 31>>, <<0, 14>>}
     ELSE {})

isPublicHoliday(date) ==
    \E holiday \in getPublicHolidays(getFullYear(date)) :
        holiday[1] = getMonth(date) /\ holiday[2] = getDate(date)

\* one pass of the while loop
LoopBody(currentDate, workingDays) ==
    [currentDate |-> currentDate + TicksPerDay,
     workingDays |-> IF getDay(currentDate) # 0 /\ getDay(currentDate) # 6
                        /\ ~isPublicHoliday(currentDate)
                     THEN workingDays + 1 ELSE workingDays]

RECURSIVE CountLoop(_, _, _)
CountLoop(currentDate, end, workingDays) ==
    IF currentDate <= end
    THEN LET next == LoopBody(currentDate, workingDays)
         IN  CountLoop(next.currentDate, end, next.workingDays)
    ELSE workingDays

\* the instant as it is given, with its time of day
StartOfDayAsGiven(date) == date

\* new Date(d.getFullYear(), d.getMonth(), d.getDate())
StartOfDay(date) == NewDate(getFullYear(date), getMonth(date), getDate(date))

\* counting from the day of submission itself
CountFromSubmissionDay(start) == start

\* countFrom.setDate(countFrom.getDate() + 1)
CountFrom(start) == start + TicksPerDay

calculateWorkingDays(startDate, endDate) ==
    LET start == StartOfDay(startDate)
        end == StartOfDay(endDate)
        countFrom == CountFrom(start)
    IN  CountLoop(countFrom, end, 0)

\* The call taken one pass of the loop at a time: `call` holds the frame.
Counting == call.fn = "calculateWorkingDays" /\ call.pc = "loop"
Counted == call.fn = "calculateWorkingDays" /\ call.pc = "done"

WorkingDaysCall(startDate, endDate) ==
    /\ ~Counting
    /\ call' = [fn |-> "calculateWorkingDays", pc |-> "loop",
                startDate |-> startDate, endDate |-> endDate,
                end |-> StartOfDay(endDate),
                currentDate |-> CountFrom(StartOfDay(startDate)),
                workingDays |-> 0]
    /\ UNCHANGED <<bookings, auditTrail, now, resp, procs, fleet>>

WorkingDaysLoop ==
    /\ Counting
    /\ call.currentDate <= call.end
    /\ LET next == LoopBody(call.currentDate, call.workingDays)
       IN  call' = [call EXCEPT !.currentDate = next.currentDate,
                                !.workingDays = next.workingDays]
    /\ UNCHANGED <<bookings, auditTrail, now, resp, procs, fleet>>

WorkingDaysReturn ==
    /\ Counting
    /\ ~(call.currentDate <= call.end)
    /\ call' = [call EXCEPT !.pc = "done"]
    /\ UNCHANGED <<bookings, auditTrail, now, resp, procs, fleet>>

NextWorkingDays ==
    \/ \E startDate \in Instants, endDate \in Instants :
          WorkingDaysCall(startDate, endDate)
    \/ WorkingDaysLoop
    \/ WorkingDaysReturn

SpecWorkingDays == Init /\ [][NextWorkingDays]_vars

\* The function runs to its return without being interrupted.
SpecWorkingDaysFair ==
    SpecWorkingDays /\ WF_vars(WorkingDaysLoop) /\ WF_vars(WorkingDaysReturn)

\* ---------------------------------------------------------------------
\* The earlier version of checkBookingConflicts: three closed range tests
\* joined by OR, every given resource required (AND), no early return.
\* the range tests without the one on the stored return date
checkBookingConflictsEarlierNoReturnTest(bk, departureDate, returnDate, driverId, vehicleId, excludeBookingId) ==
    LET overlap(b) ==
            \/ b.departureDate >= departureDate /\ b.departureDate <= returnDate
            \/ b.departureDate <= departureDate /\ b.returnDate >= returnDate
        conditions(b) ==
            /\ b.status = "approved"
            /\ overlap(b)
            /\ Truthy(driverId) => b.driverId = driverId
            /\ Truthy(vehicleId) => b.vehicleId = vehicleId
            /\ excludeBookingId # NoId => b.id # excludeBookingId
    IN  {b \in Range(bk) : conditions(b)}

checkBookingConflictsEarlier(bk, departureDate, returnDate, driverId, vehicleId, excludeBookingId) ==
    LET overlap(b) ==
            \/ b.departureDate >= departureDate /\ b.departureDate <= returnDate
            \/ b.returnDate >= departureDate /\ b.returnDate <= returnDate
            \/ b.departureDate <= departureDate /\ b.returnDate >= returnDate
        conditions(b) ==
            /\ b.status = "approved"
            /\ overlap(b)
            /\ Truthy(driverId) => b.driverId = driverId
            /\ Truthy(vehicleId) => b.vehicleId = vehicleId
            /\ excludeBookingId # NoId => b.id # excludeBookingId
    IN  {b \in Range(bk) : conditions(b)}

\* both versions applied to one query on one stored table
CompareVersions(q) ==
    /\ call = NoCall
    /\ call' = [fn |-> "checkBookingConflicts", args |-> q,
                result |-> checkBookingConflicts(bookings, q.departureDate, q.returnDate,
                               q.driverId, q.vehicleId, q.excludeBookingId),
                earlier |-> checkBookingConflictsEarlier(bookings, q.departureDate,
                                q.returnDate, q.driverId, q.vehicleId, q.excludeBookingId)]
    /\ UNCHANGED <<bookings, auditTrail, now, resp, procs, fleet>>

NextVersions == \E q \in Queries : CompareVersions(q)

SpecVersions == InitConflicts /\ [][NextVersions]_vars

\* ---------------------------------------------------------------------
\* The claims.
Overlap(s1, e1, s2, e2) == s1 < e2 /\ s2 < e1
Approved(bk) == {i \in Ids(bk) : bk[i].status = "approved"}
SameDriver(a, b) == a.driverId # Null /\ a.driverId = b.driverId
SameVehicle(a, b) == a.vehicleId # Null /\ a.vehicleId = b.vehicleId
DoubleAssigned(bk, i, j) ==
    /\ i # j
    /\ i \in Approved(bk) /\ j \in Approved(bk)
    /\ Overlap(bk[i].departureDate, bk[i].returnDate,
               bk[j].departureDate, bk[j].returnDate)
    /\ SameDriver(bk[i], bk[j]) \/ SameVehicle(bk[i], bk[j])

\* C1: after any sequence of create, approve, reject, modify and cancel
\* applied one at a time, no two distinct approved reservations with
\* overlapping intervals hold the same driver or the same vehicle.
C1_NoDoubleAssignment ==
    \A i \in Ids(bookings), j \in Ids(bookings) : ~DoubleAssigned(bookings, i, j)

\* C2: two Approve requests running concurrently for two different pending
\* reservations with overlapping intervals and the same driver or vehicle
\* never both succeed: a state in which both are approved is unreachable.
C2_ConcurrentApproveExclusive ==
    \A i \in Ids(bookings), j \in Ids(bookings) : ~DoubleAssigned(bookings, i, j)

\* C3: two Create requests in flight at the same time never hold the same
\* booking code from the generator.
C3_ConcurrentCodesDiffer ==
    \A p \in Procs, q \in Procs :
        (p # q /\ procs[p].pc = "insert" /\ procs[q].pc = "insert")
            => procs[p].code # procs[q].code

\* C4: no two persisted reservations have the same booking code, and no
\* step changes the booking code of a persisted reservation.
UniqueCodes ==
    \A i \in Ids(bookings), j \in Ids(bookings) :
        i # j => bookings[i].bookingId # bookings[j].bookingId
CodesKept ==
    \A i \in Ids(bookings) : i \in Ids(bookings') /\ bookings'[i].bookingId = bookings[i].bookingId
C4_CodeUniqueImmutable == [](UniqueCodes) /\ [][CodesKept]_vars
C4_Witness ==
    /\ Len(bookings) = 2
    /\ \E e \in Range(auditTrail) :
          /\ e.action \in {"approved", "rejected", "modified", "cancelled"}
          /\ e.newValues.bookingId = bookings[e.bookingId].bookingId

\* C5: an Approve with any resource assignment (a driver only, a vehicle
\* only, or both) is refused whenever checkBookingConflicts over the
\* reservation's own interval with that assignment, excluding itself, is
\* non-empty: nothing is written and the response carries every conflict.
ApproveBodies == {b \in ProcessBodies : b.status = "approved"}
ConflictsOf(id, body) ==
    checkBookingConflicts(bookings, bookings[id].departureDate, bookings[id].returnDate,
                          body.driverId, body.vehicleId, id)
C5_ApproveRefusedOnConflict ==
    [][\A id \in Ids(bookings), body \in ApproveBodies :
          (Process("a1", id, body) /\ ConflictsOf(id, body) # {})
              => /\ resp'.status = 400
                 /\ resp'.conflicts = ConflictsOf(id, body)
                 /\ bookings' = bookings
                 /\ auditTrail' = auditTrail]_vars

\* C6: with R1 approved with driver d1 and vehicle v1 and R2 pending with an
\* interval overlapping R1, an approve of R2 with driver d1 is refused with
\* the conflict response listing R1, and a following approve of R2 with
\* driver d2 and vehicle v2 succeeds.
Scenario(r1, r2) ==
    /\ Len(bookings) = 2 /\ r1 # r2
    /\ bookings[r1].status = "approved"
    /\ bookings[r1].driverId = "d1" /\ bookings[r1].vehicleId = "v1"
    /\ bookings[r2].status = "pending"
    /\ Overlap(bookings[r1].departureDate, bookings[r1].returnDate,
               bookings[r2].departureDate, bookings[r2].returnDate)
C6_Scenario ==
    [][\A r1 \in Ids(bookings), r2 \in Ids(bookings) :
          Scenario(r1, r2) =>
            /\ \A body \in ApproveBodies :
                 (body.driverId = "d1" /\ Process("a1", r2, body))
                     => resp'.status = 400 /\ bookings[r1] \in resp'.conflicts
            /\ (/\ resp.status = 400 /\ bookings[r1] \in resp.conflicts
                /\ Process("a1", r2,
                       ProcessBody("approved", "d2", "v2", "Driver Must Wait", Undef)))
                     => resp'.status = 200 /\ bookings'[r2].status = "approved"]_vars

\* C7: checkBookingConflicts returns exactly the stored reservations that
\* are approved, are not the excluded one, overlap the candidate interval
\* (departure < end and start < return) and hold the given driver or the
\* given vehicle; every such reservation is returned.
Given(v) == v # Undef
IsConflict(r, q) ==
    /\ r.status = "approved"
    /\ r.id # q.excludeBookingId
    /\ r.departureDate < q.returnDate /\ q.departureDate < r.returnDate
    /\ \/ Given(q.driverId) /\ r.driverId = q.driverId
       \/ Given(q.vehicleId) /\ r.vehicleId = q.vehicleId
Called == call.fn = "checkBookingConflicts"
C7_ExactConflictSet ==
    Called => call.result = {r \in Range(bookings) : IsConflict(r, call.args)}
C7_Witness ==
    /\ Called
    /\ Cardinality(call.result) = 2
    /\ \E r \in call.result :
          r.driverId = call.args.driverId /\ r.vehicleId # call.args.vehicleId
    /\ \E r \in call.result :
          r.driverId # call.args.driverId /\ r.vehicleId = call.args.vehicleId

\* C8: an approved reservation [s1, e1) with the candidate's driver or
\* vehicle is not reported when the candidate [s2, e2) has e1 <= s2 or
\* e2 <= s1; intervals that only touch at a boundary never conflict.
Apart(r, q) == r.returnDate <= q.departureDate \/ q.returnDate <= r.departureDate
SharesResource(r, q) == r.driverId = q.driverId \/ r.vehicleId = q.vehicleId
C8_NoConflictWhenApart ==
    Called => \A r \in Range(bookings) :
                 (r.status = "approved" /\ SharesResource(r, call.args) /\ Apart(r, call.args))
                     => r \notin call.result
C8_Witness ==
    /\ Called
    /\ \E r \in Range(bookings) :
          /\ r.status = "approved" /\ r.id # call.args.excludeBookingId
          /\ r.driverId = call.args.driverId
          /\ r.returnDate = call.args.departureDate
          /\ r \notin call.result

\* C9: a refusal of an Approve or Modify for conflicts lists approved
\* reservations only: a pending, rejected or cancelled reservation never
\* is the cause, whatever its interval, driver and vehicle.
Refused == resp.status = 400 /\ resp.conflicts # {}
C9_OnlyApprovedBlock ==
    /\ resp.message = ConflictResponse({}).message => Refused
    /\ \A c \in resp.conflicts : c \in Range(bookings) /\ c.status = "approved"
C9_Witness ==
    /\ resp.status = 200 /\ resp.message = "approved"
    /\ LET e == auditTrail[Len(auditTrail)]
       IN  \E i \in Ids(bookings) :
              /\ i # e.bookingId
              /\ bookings[i].status \in {"pending", "rejected", "dibatalkan"}
              /\ bookings[i].driverId = e.newValues.driverId
              /\ bookings[i].vehicleId = e.newValues.vehicleId
              /\ e.newValues.driverId # Null /\ e.newValues.vehicleId # Null
              /\ Overlap(bookings[i].departureDate, bookings[i].returnDate,
                         e.newValues.departureDate, e.newValues.returnDate)

\* C10: checkBookingConflicts called with neither a driver nor a vehicle
\* returns the empty list, also when approved reservations overlap.
C10_EmptyWithoutResource ==
    (Called /\ ~Given(call.args.driverId) /\ ~Given(call.args.vehicleId))
        => call.result = {}
C10_Witness ==
    /\ Called /\ ~Given(call.args.driverId) /\ ~Given(call.args.vehicleId)
    /\ \E r \in Range(bookings) :
          /\ r.status = "approved" /\ r.id # call.args.excludeBookingId
          /\ Overlap(r.departureDate, r.returnDate,
                     call.args.departureDate, call.args.returnDate)

\* C11: checkBookingConflicts is symmetric: for two approved reservations
\* A and B, B is reported when checking A's interval with A's driver and
\* vehicle, A excluded, if and only if A is reported when checking B's
\* interval with B's driver and vehicle, B excluded.
PairCalled == call.fn = "checkPair"
BothApproved(a, b) == bookings[a].status = "approved" /\ bookings[b].status = "approved"
C11_Symmetric ==
    (PairCalled /\ BothApproved(call.a, call.b))
        => (bookings[call.b] \in call.fromA <=> bookings[call.a] \in call.fromB)
C11_Witness ==
    /\ PairCalled /\ BothApproved(call.a, call.b)
    /\ bookings[call.a].driverId = "d1" /\ bookings[call.a].vehicleId = Null
    /\ bookings[call.b].driverId = "d1" /\ bookings[call.b].vehicleId = "v1"
    /\ bookings[call.b] \in call.fromA
    /\ bookings[call.a] \in call.fromB

\* C12: the generator returns the two digits of the current year followed
\* by a three-digit zero-padded sequence number: 001 when no stored code has
\* the current year's prefix, otherwise the numerically largest stored
\* suffix of that year plus one.
YearDigits(t) == <<(YearOf(t) \div 10) % 10, YearOf(t) % 10>>
Suffix(code) == ParseInt(SubSeq(code, 3, Len(code)))
SuffixesOfYear(bk, t) ==
    {Suffix(bk[i].bookingId) : i \in {j \in Ids(bk) :
                                  SubSeq(bk[j].bookingId, 1, 2) = YearDigits(t)}}
NextSequence(bk, t) ==
    LET used == SuffixesOfYear(bk, t)
    IN  IF used = {} THEN 1
        ELSE (CHOOSE m \in used : \A o \in used : o <= m) + 1
Generated == call.fn = "generateBookingId"
C12_GeneratedCode ==
    Generated =>
        /\ Len(call.result) = 5
        /\ SubSeq(call.result, 1, 2) = YearDigits(now)
        /\ ParseInt(SubSeq(call.result, 3, 5)) = NextSequence(bookings, now)

\* C13: over any sequence of successful creations, the codes issued within
\* one year have strictly increasing numeric suffixes, none repeats, and
\* the first code issued in a new year has suffix 001 whatever the previous
\* year's maximum was.  The table keeps the creations in the order they
\* were made.
SameYear(c1, c2) == SubSeq(c1, 1, 2) = SubSeq(c2, 1, 2)
FirstOfYear(bk, i) == i = 1 \/ ~SameYear(bk[i - 1].bookingId, bk[i].bookingId)
C13_CodesIncreaseAndReset ==
    \A i \in Ids(bookings) :
        IF FirstOfYear(bookings, i)
        THEN SubSeq(bookings[i].bookingId, 3, Len(bookings[i].bookingId)) = <<0, 0, 1>>
        ELSE Suffix(bookings[i - 1].bookingId) < Suffix(bookings[i].bookingId)
C13_Witness ==
    /\ Len(auditTrail) = 2 /\ Len(bookings) > 2
    /\ LET n == Len(bookings)
       IN  /\ auditTrail[1].newValues = bookings[n - 1]
           /\ auditTrail[2].newValues = bookings[n]
           /\ Suffix(bookings[n - 2].bookingId) = 999
           /\ FirstOfYear(bookings, n - 1)
           /\ Suffix(bookings[n - 1].bookingId) = 1
           /\ Suffix(bookings[n].bookingId) = 2

\* C14: when the largest stored code of the current year has suffix 999, a
\* further Create is refused with an error: it stores no reservation and
\* no audit entry, so no code outside the format, no lower suffix and no
\* code already in use is issued.
Exhausted(bk, t) == 999 \in SuffixesOfYear(bk, t)
C14_SequenceExhausted ==
    [][\A body \in CodesCreateBodies :
          (CreateIssued("u1", body) /\ Exhausted(bookings, now))
              => /\ resp'.status = 500
                 /\ bookings' = bookings
                 /\ auditTrail' = auditTrail]_vars

\* C15: an admin using approve or reject changes a reservation only while
\* it is pending: a process request by an admin on an approved, rejected
\* or cancelled reservation is refused and changes nothing.
C15_AdminOnlyWhilePending ==
    [][\A id \in Ids(bookings), body \in ProcessBodies :
          (Process("a1", id, body) /\ bookings[id].status # "pending")
              => /\ resp'.status # 200
                 /\ bookings' = bookings
                 /\ auditTrail' = auditTrail]_vars

\* C16: rejected and cancelled are terminal: no approve, reject or cancel
\* changes the status of a rejected or cancelled reservation, and no step
\* at all makes a cancelled reservation approved.
Terminal(b) == b.status = "rejected" \/ b.status = "dibatalkan"
C16_TerminalStates ==
    [][\A id \in Ids(bookings) :
          /\ (/\ Terminal(bookings[id])
              /\ \/ \E body \in ProcessBodies : Process("a1", id, body)
                 \/ Cancel("u1", id))
                => bookings'[id].status = bookings[id].status
          /\ bookings[id].status = "dibatalkan"
                => bookings'[id].status # "approved"]_vars

\* C17: in every reachable state a reservation that has a driver or a
\* vehicle assigned has status approved; pending, rejected and cancelled
\* reservations hold no assignment.
Assigned(b) == b.driverId # Null \/ b.vehicleId # Null
C17_AssignedOnlyWhenApproved ==
    \A i \in Ids(bookings) : Assigned(bookings[i]) => bookings[i].status = "approved"

\* C18: every stored reservation has its return instant strictly after its
\* departure instant: a Create whose return is not after its departure
\* stores nothing.
C18_ReturnAfterDeparture ==
    \A i \in Ids(bookings) : bookings[i].returnDate > bookings[i].departureDate

\* C19: Create is applied only when the departure instant is strictly
\* after the current instant: a request with departure <= now, departure
\* = now included, is answered 400 and stores neither a reservation nor an
\* audit entry.
CreatedInFuture ==
    /\ Len(auditTrail) = Len(bookings)
    /\ \A e \in Range(auditTrail) :
          e.action = "created" => e.newValues.departureDate > e.timestamp
PastRefused ==
    \A body \in RequestBodies :
        (Create("u1", body) /\ body.departureDate <= now)
            => /\ resp'.status = 400
               /\ bookings' = bookings
               /\ auditTrail' = auditTrail
C19_FutureOnly == [](CreatedInFuture) /\ [][PastRefused]_vars
C19_Witness ==
    /\ now = 1
    /\ resp = Response(400, "Booking must be for future dates only")
    /\ Len(bookings) = 1 /\ bookings[1].departureDate = 1

\* C20: every reservation a successful Create produces has status pending,
\* no processor and no processed instant, whatever the request carries;
\* its owner is the requester and its code is the generated one.
C20_CreatedPending ==
    \A e \in Range(auditTrail) :
        e.action = "created" =>
            /\ e.newValues.status = "pending"
            /\ e.newValues.processedBy = Null
            /\ e.newValues.processedDate = NoDate
            /\ e.newValues.userId = e.userId
            /\ Len(e.newValues.bookingId) = 5

\* C21: transitions are role-gated: approve or reject is applied only when
\* the actor's stored role is admin or superadmin, modify only when it is
\* superadmin; a request by any other actor is answered 403 and leaves the
\* reservations and the audit trail unchanged.
AuditedByRole ==
    \A e \in Range(auditTrail) :
        /\ e.action \in {"approved", "rejected"}
              => UserRole[e.userId] \in {"admin", "superadmin"}
        /\ e.action = "modified" => UserRole[e.userId] = "superadmin"
OthersRefused ==
    /\ \A u \in {x \in RequestUsers : UserRole[x] \notin {"admin", "superadmin"}},
          id \in BookingIds, body \in ProcessRequests :
            Process(u, id, body)
                => /\ resp'.status = 403
                   /\ bookings' = bookings /\ auditTrail' = auditTrail
    /\ \A u \in {x \in RequestUsers : UserRole[x] # "superadmin"},
          id \in BookingIds, body \in ModifyRequests :
            Modify(u, id, body)
                => /\ resp'.status = 403
                   /\ bookings' = bookings /\ auditTrail' = auditTrail
C21_RoleGated == [](AuditedByRole) /\ [][OthersRefused]_vars
C21_Witness ==
    /\ resp = Response(403, "Only Super Admin can modify processed bookings")
    /\ \E e \in Range(auditTrail) : e.action = "approved" /\ e.userId = "a1"
    /\ \E e \in Range(auditTrail) : e.action = "modified" /\ e.userId = "s1"

\* C22: a Modify with new status approved and any resource assignment (a
\* driver only, a vehicle only, or both) runs the conflict check of
\* Approve over the reservation's interval, itself excluded: it is refused
\* without mutation when a conflict exists, and a reservation never is a
\* conflict of its own re-approval.
ModifyApproveBodies == {b \in ModifyBodies : b.status = "approved"}
C22_ModifyRefusedOnConflict ==
    [][\A id \in Ids(bookings), body \in ModifyApproveBodies :
          Modify("s1", id, body)
              => /\ ConflictsOf(id, body) # {}
                    => /\ resp'.status = 400
                       /\ bookings' = bookings
                       /\ auditTrail' = auditTrail
                 /\ bookings[id] \notin resp'.conflicts]_vars

\* C23: Cancel is applied if and only if the requester is the
\* reservation's owner, the status is pending or approved and the
\* departure instant is strictly after now; in every other case the
\* reservations and the audit trail are unchanged.
MayCancel(u, id) ==
    /\ id \in Ids(bookings)
    /\ bookings[id].userId = u
    /\ bookings[id].status \in {"pending", "approved"}
    /\ bookings[id].departureDate > now
CancelApplied(u, id) ==
    /\ resp'.status = 200
    /\ id \in Ids(bookings') /\ bookings'[id].status = "dibatalkan"
    /\ Len(auditTrail') = Len(auditTrail) + 1
    /\ auditTrail'[Len(auditTrail')].action = "cancelled"
    /\ auditTrail'[Len(auditTrail')].bookingId = id
    /\ auditTrail'[Len(auditTrail')].userId = u
C23_CancelIff ==
    [][\A u \in CancelUsers, id \in BookingIds :
          Cancel(u, id) =>
              IF MayCancel(u, id) THEN CancelApplied(u, id)
              ELSE /\ resp'.status # 200
                   /\ bookings' = bookings
                   /\ auditTrail' = auditTrail]_vars
C23_Witness ==
    /\ now > 0
    /\ resp = Response(200, "cancelled")
    /\ Len(bookings) = 1
    /\ bookings[1].status = "dibatalkan" /\ bookings[1].driverId = "d1"
    /\ auditTrail[Len(auditTrail)].oldValues.status = "approved"

\* C24: a Cancel by a non-owner is answered with the authorization error
\* 403, also when the status or the departure test would fail too; a
\* Cancel by the owner of a pending or approved reservation whose
\* departure instant has passed is answered with the validation error 400.
C24_CancelErrors ==
    [][\A u \in CancelUsers, id \in Ids(bookings) :
          Cancel(u, id) =>
              /\ bookings[id].userId # u => resp'.status = 403
              /\ (/\ bookings[id].userId = u
                  /\ bookings[id].status \in {"pending", "approved"}
                  /\ bookings[id].departureDate <= now)
                    => resp' = Response(400,
                                   "Cannot cancel bookings that have already started")]_vars
C24_Witness ==
    /\ Len(bookings) = 1
    /\ bookings[1].status = "rejected" /\ bookings[1].departureDate <= now
    /\ resp = Response(403, "You can only cancel your own bookings")

\* C25: the reservation write of a transition and its audit entry are one
\* unit: also when the audit write fails or the operation stops between
\* the two writes, either both are persisted or neither is.  Once no
\* request is in flight, the stored state of every reservation is the new
\* state of one of its audit entries.
Audited(i) ==
    \E e \in Range(auditTrail) : e.bookingId = i /\ e.newValues = bookings[i]
C25_WriteAndAuditTogether ==
    InFlight = {} => \A i \in Ids(bookings) : Audited(i)

\* C26: the audit trail is append-only: each applied create, approve,
\* reject, modify or cancel adds exactly one entry whose action names the
\* transition and whose new state has the status the transition produces
\* (an entry tagged rejected records status rejected), and no step changes
\* or removes an entry.
TagStatus(e) ==
    /\ e.action = "approved" => e.newValues.status = "approved"
    /\ e.action = "rejected" => e.newValues.status = "rejected"
    /\ e.action = "cancelled" => e.newValues.status = "dibatalkan"
TagsMatch == \A e \in Range(auditTrail) : TagStatus(e)
AppendOnly ==
    /\ Len(auditTrail') = Len(auditTrail) + (IF resp'.status = 200 THEN 1 ELSE 0)
    /\ SubSeq(auditTrail', 1, Len(auditTrail)) = auditTrail
    /\ resp'.status = 200 => auditTrail'[Len(auditTrail')].action = resp'.message
C26_AuditAppendOnly == [](TagsMatch) /\ [][AppendOnly]_vars

\* C27: for each reservation the order of its audit entries is the order
\* in which the reservation writes were applied, also when two operations
\* on it run concurrently: the created entry precedes every other entry of
\* the reservation, and once no request is in flight the last entry of a
\* reservation records the state the last write left.
EntriesOf(i) == {k \in DOMAIN auditTrail : auditTrail[k].bookingId = i}
LastEntryOf(i) == CHOOSE k \in EntriesOf(i) : \A j \in EntriesOf(i) : j <= k
CreatedFirst ==
    \A k \in DOMAIN auditTrail :
        auditTrail[k].action = "created"
            => \A j \in EntriesOf(auditTrail[k].bookingId) : k <= j
LastWriteLast ==
    \A i \in Ids(bookings) :
        EntriesOf(i) # {} => auditTrail[LastEntryOf(i)].newValues = bookings[i]
C27_AuditInWriteOrder == CreatedFirst /\ (InFlight = {} => LastWriteLast)

\* C28: for create, approve, reject and modify the stored reservations,
\* the audit trail and the answer to the caller are the same whether the
\* notifier succeeds, answers failure, throws or is not configured: they
\* are those of the handler without a notifier.
SameAs(out) ==
    /\ bookings' = out.bookings
    /\ auditTrail' = out.auditTrail
    /\ resp' = out.resp
NotifierHarmless ==
    \A mail \in MailOutcomes :
        /\ \A body \in NotifyCreateBodies :
              CreateNotify("u1", body, mail)
                  => SameAs(CreateOutcome(bookings, auditTrail, now, "u1", body))
        /\ \A id \in BookingIds :
              /\ \A body \in NotifyProcessBodies :
                    ProcessNotify("a1", id, body, mail)
                        => SameAs(ProcessOutcome(bookings, auditTrail, now, "a1", id, body))
              /\ \A body \in NotifyModifyBodies :
                    ModifyNotify("s1", id, body, mail)
                        => SameAs(ModifyOutcome(bookings, auditTrail, now, "s1", id, body))
C28_NotifierHarmless == [][NotifierHarmless]_vars
C28_Witness ==
    /\ call = [fn |-> "emailService", outcome |-> "throws"]
    /\ resp = Response(200, "approved")
    /\ auditTrail[Len(auditTrail)].action = "approved"
    /\ bookings[auditTrail[Len(auditTrail)].bookingId].status = "approved"

\* C29: a process or modify request of a caller with the role for it that
\* names a reservation id that does not exist, and an approve or a modify
\* that names a driver or a vehicle that does not exist, is answered 404
\* and leaves the reservations and the audit trail as they were.
NoSuchResource(body) ==
    \/ Truthy(body.driverId) /\ body.driverId \notin Drivers
    \/ Truthy(body.vehicleId) /\ body.vehicleId \notin Vehicles
NotFoundRefusal ==
    /\ resp'.status = 404
    /\ UNCHANGED <<bookings, auditTrail>>
NotFoundRefused ==
    \A u \in RequestUsers, id \in BookingIds :
        /\ \A body \in ProcessRequests :
              /\ Process(u, id, body)
              /\ MayProcess(u)
              /\ \/ ~Found(bookings, id)
                 \/ body.status = "approved" /\ NoSuchResource(body)
              => NotFoundRefusal
        /\ \A body \in ModifyRequests :
              /\ Modify(u, id, body)
              /\ MayModify(u)
              /\ ~Found(bookings, id) \/ NoSuchResource(body)
              => NotFoundRefusal
C29_NotFoundRefused == [][NotFoundRefused]_vars

\* C30: the statistics are exactly the three counts pending, approved and
\* rejected, each the number of stored reservations in that status, also
\* when cancelled reservations exist, and reading them changes nothing.
CountOf(bk, status) == Cardinality({i \in Ids(bk) : bk[i].status = status})
ExactCounts ==
    /\ DOMAIN call'.result = {"pending", "approved", "rejected"}
    /\ \A status \in {"pending", "approved", "rejected"} :
          call'.result[status] = CountOf(bookings, status)
    /\ UNCHANGED <<bookings, auditTrail>>
C30_StatsExact == [][Stats => ExactCounts]_vars

\* C31: the availability returned with the statistics is the number of
\* vehicles with the active flag set over the number of all vehicles,
\* the deactivated ones included.
ActiveCount == Cardinality({v \in DOMAIN fleet.vehicles : fleet.vehicles[v] = TRUE})
TotalCount == Cardinality(DOMAIN fleet.vehicles)
C31_AvailabilityRatio ==
    [][Stats => call'.availableVehicles = <<ActiveCount, TotalCount>>]_vars

\* C32: deleting a driver or a vehicle only clears its active flag: the
\* row stays, so every driver and vehicle a reservation refers to exists
\* in every reachable state, and the delete changes no reservation.
ReferencesExist ==
    \A i \in Ids(bookings) :
        /\ bookings[i].driverId # Null => bookings[i].driverId \in DOMAIN fleet.drivers
        /\ bookings[i].vehicleId # Null => bookings[i].vehicleId \in DOMAIN fleet.vehicles
SoftDelete ==
    /\ \A id \in DriverIds :
          DeleteDriver("a1", id) =>
              /\ DOMAIN fleet'.drivers = DOMAIN fleet.drivers
              /\ id \in DOMAIN fleet.drivers => fleet'.drivers[id] = FALSE
              /\ UNCHANGED bookings
    /\ \A id \in VehicleIds :
          DeleteVehicle("a1", id) =>
              /\ DOMAIN fleet'.vehicles = DOMAIN fleet.vehicles
              /\ id \in DOMAIN fleet.vehicles => fleet'.vehicles[id] = FALSE
              /\ UNCHANGED bookings
C32_SoftDelete == [](ReferencesExist) /\ [][SoftDelete]_vars
C32_Witness ==
    /\ \E i \in Ids(bookings) : bookings[i].driverId = "d1" /\ bookings[i].vehicleId = "v1"
    /\ fleet.drivers["d1"] = FALSE
    /\ fleet.vehicles["v1"] = FALSE
    /\ resp = Response(200, "Vehicle deleted successfully")

\* C33: calculateWorkingDays(start, end) is the number of days d with
\* date(start) < d <= date(end) that are not a Saturday, a Sunday or a
\* holiday, whatever the time of day of the two instants; it is 0 when
\* date(end) <= date(start), and Friday to the next Monday gives 1.
Midnight(day) == day * TicksPerDay
IsWorkingDay(day) ==
    /\ getDay(Midnight(day)) \notin {0, 6}
    /\ ~isPublicHoliday(Midnight(day))
WorkingDaysBetween(startDate, endDate) ==
    Cardinality({day \in 0 .. MaxDay + 1 :
        DayOf(startDate) < day /\ day <= DayOf(endDate) /\ IsWorkingDay(day)})
C33_WorkingDays ==
    Counted =>
        /\ call.workingDays = WorkingDaysBetween(call.startDate, call.endDate)
        /\ call.workingDays = calculateWorkingDays(call.startDate, call.endDate)
        /\ DayOf(call.endDate) <= DayOf(call.startDate) => call.workingDays = 0
        /\ DayOf(call.startDate) = 0 /\ DayOf(call.endDate) = 3 => call.workingDays = 1
C33_Witness ==
    /\ Counted
    /\ call.startDate = Midnight(0) + 1
    /\ call.endDate = Midnight(3)
    /\ call.workingDays = 1

\* C39: calculateWorkingDays is additive over adjacent windows: for dates
\* a <= b <= c the count from a to c is the count from a to b plus the
\* count from b to c; and the counting loop ends for every pair of
\* instants, the end before the start included.
Additive ==
    Counted =>
        \A b \in Instants :
            DayOf(call.startDate) <= DayOf(b) /\ DayOf(b) <= DayOf(call.endDate)
                => call.workingDays = calculateWorkingDays(call.startDate, b)
                                      + calculateWorkingDays(b, call.endDate)
C39_AdditiveAndTerminates == [](Additive) /\ (Counting ~> Counted)
C39_Witness ==
    /\ Counted
    /\ DayOf(call.startDate) = 0
    /\ DayOf(call.endDate) = MaxDay
    /\ call.workingDays = calculateWorkingDays(call.startDate, Midnight(2))
                          + calculateWorkingDays(Midnight(2), call.endDate)
    /\ call.workingDays > 0

\* C34: a successful approve leaves the reservation approved with the
\* driver, vehicle and driver instruction of the request, processedBy the
\* processor and processedDate the time of the request; a successful
\* reject leaves it rejected with the reason of the request, processedBy
\* and processedDate, and is never refused for a conflict; both leave
\* booking code, owner and interval as they were.
Processed(u, id) ==
    /\ bookings'[id].processedBy = u
    /\ bookings'[id].processedDate = now
    /\ bookings'[id].bookingId = bookings[id].bookingId
    /\ bookings'[id].userId = bookings[id].userId
    /\ bookings'[id].departureDate = bookings[id].departureDate
    /\ bookings'[id].returnDate = bookings[id].returnDate
ApproveEffect(u, id, body) ==
    /\ bookings'[id].status = "approved"
    /\ bookings'[id].driverId = OrNull(body.driverId)
    /\ bookings'[id].vehicleId = OrNull(body.vehicleId)
    /\ bookings'[id].driverInstruction = OrNull(body.driverInstruction)
    /\ Processed(u, id)
RejectEffect(u, id, body) ==
    /\ resp'.status = 200
    /\ bookings'[id].status = "rejected"
    /\ bookings'[id].rejectionReason = OrNull(body.rejectionReason)
    /\ Processed(u, id)
ProcessEffect ==
    \A u \in {"a1", "s1"}, id \in BookingIds, body \in ProcessBodies :
        (Process(u, id, body) /\ Found(bookings, id)) =>
            /\ (body.status = "approved" /\ resp'.status = 200) => ApproveEffect(u, id, body)
            /\ body.status = "rejected" => RejectEffect(u, id, body)
C34_ProcessEffect == [][ProcessEffect]_vars

\* C35: every approve, reject, modify and cancel changes at most the one
\* reservation it names: every other reservation is the same before and
\* after, whether the request is applied or refused.
OthersUnchanged(id) ==
    /\ Len(bookings') = Len(bookings)
    /\ \A j \in Ids(bookings) \ {id} : bookings'[j] = bookings[j]
Names(id) ==
    \/ \E body \in ProcessBodies : Process("a1", id, body)
    \/ \E body \in ModifyBodies : Modify("s1", id, body)
    \/ Cancel("u1", id)
\* stated by contraposition: a step that changes another reservation than
\* id is no approve, reject, modify or cancel of id
OnlyNamedChanges ==
    \A id \in BookingIds : ~OthersUnchanged(id) => ~Names(id)
C35_OnlyNamedChanges == [][OnlyNamedChanges]_vars
C35_Witness ==
    /\ Len(bookings) = 2
    /\ resp = Response(200, "approved")
    /\ bookings[1].status = "pending"
    /\ bookings[1].processedBy = Null
    /\ bookings[2].status = "approved"

\* C36: the prior snapshot of an audit entry is the stored reservation
\* immediately before the write of its transition and the new snapshot
\* the reservation immediately after it, so of two consecutive entries of
\* one reservation the new state of the first is the prior state of the
\* second, also when requests on one reservation interleave.
SnapshotsAtWrite ==
    \A p \in Procs :
        (Update(p) /\ procs'[p].pc = "audit") =>
            /\ procs'[p].existingBooking = bookings[procs[p].id]
            /\ procs'[p].updatedBooking = bookings'[procs[p].id]
NextEntryOf(i, k) ==
    CHOOSE j \in EntriesOf(i) : k < j /\ \A m \in EntriesOf(i) : m <= k \/ j <= m
SnapshotsChain ==
    \A i \in Ids(bookings) : \A k \in EntriesOf(i) :
        k # LastEntryOf(i) =>
            /\ auditTrail[NextEntryOf(i, k)].action # "created"
            /\ auditTrail[k].newValues = auditTrail[NextEntryOf(i, k)].oldValues
C36_SnapshotsChain == [](InFlight = {} => SnapshotsChain) /\ [][SnapshotsAtWrite]_vars

\* C37: for reservations with departure < return and a query naming
\* exactly one resource, the earlier version of the conflict check reports
\* every reservation the present version reports, and what it reports in
\* addition are exactly the approved reservations of that resource whose
\* interval touches the query's at an endpoint.
OneResource(q) == Truthy(q.driverId) # Truthy(q.vehicleId)
Touches(b, q) == b.departureDate = q.returnDate \/ b.returnDate = q.departureDate
Eligible(b, q) ==
    /\ b.status = "approved"
    /\ Truthy(q.driverId) => b.driverId = q.driverId
    /\ Truthy(q.vehicleId) => b.vehicleId = q.vehicleId
    /\ q.excludeBookingId # NoId => b.id # q.excludeBookingId
C37_EarlierVersion ==
    (call.fn = "checkBookingConflicts" /\ OneResource(call.args)
        /\ \A b \in Range(bookings) : b.departureDate < b.returnDate) =>
        /\ call.result \subseteq call.earlier
        /\ call.earlier \ call.result =
               {b \in Range(bookings) : Eligible(b, call.args) /\ Touches(b, call.args)}
C37_Witness ==
    /\ call.fn = "checkBookingConflicts"
    /\ OneResource(call.args)
    /\ call.result # {}
    /\ call.earlier \ call.result # {}

\* C38: cancelling an approved reservation releases its driver and
\* vehicle: from the cancel onward the reservation is never reported by
\* checkBookingConflicts, and another reservation with an overlapping
\* interval can be approved with the same driver and vehicle.
\* the audit trail tells that reservation i was cancelled while approved
WasCancelled(i) ==
    \E e \in Range(auditTrail) :
        e.bookingId = i /\ e.action = "cancelled" /\ e.oldValues.status = "approved"
Reported(i) ==
    /\ i \in Ids(bookings)
    /\ \E d \in {Undef, bookings[i].driverId}, v \in {Undef, bookings[i].vehicleId} :
          bookings[i] \in checkBookingConflicts(bookings, bookings[i].departureDate,
                              bookings[i].returnDate, d, v, NoId)
NoOtherApproved(j) ==
    \A i \in Ids(bookings) \ {j} : bookings[i].status # "approved"
Released ==
    \A j \in BookingIds, body \in CancelProcessBodies :
        (Process("a1", j, body) /\ Found(bookings, j) /\ body.status = "approved"
            /\ NoOtherApproved(j))
        => resp'.status = 200
C38_CancelReleases ==
    /\ [](\A i \in BookingIds : WasCancelled(i) => ~Reported(i))
    /\ [][Released]_vars
====
